---- MODULE Spec2Model ----
(***************************************************************************)
(* A model of the adaptive-sampling core of gryffin:                       *)
(*   - RandomSampler      (random_sampler/random_sampler.py)               *)
(*   - GradientOptimizer  (acquisition/gradient_optimizer/...)             *)
(*   - SampleSelector     (sample_selector/sample_selector.py)             *)
(* Each component has its own specification (SpecSampler, SpecOptimizer,   *)
(* SpecScoring, SpecSelect) over one set of variables; a specification     *)
(* leaves the variables of the other components at their idle values.      *)
(*                                                                         *)
(* Numbers.  Continuous values live on an integer grid.  The uniform noise *)
(* of perturb, a real in [-scale, scale], is k/ScaleGrid for an integer k; *)
(* the feature ranges of the sampler configurations are multiples of       *)
(* ScaleGrid, so that noise * range is exact on the grid.                  *)
(***************************************************************************)
EXTENDS Integers, Sequences, FiniteSets, TLC

\* ------------------------------------------------------------------------
\* Bounds of the model
\* ------------------------------------------------------------------------
\* the largest num given to draw / perturb
MaxNum == 2
\* the largest max_iter given to optimize
MaxIter == 2
\* the largest self.num_cpus
MaxCpus == 3
\* the largest number of candidates per strategy that is scored
MaxCandidates == 3
\* the largest num_batches given to select
MaxBatches == 2
\* grid steps of the unit noise interval: scale and noise are k / ScaleGrid
ScaleGrid == 2

VARIABLES
    \* ---- RandomSampler ----
    rs_parameters,      \* self.config.parameters: sequence of parameter settings
    known_constraints,  \* self.known_constraints: NoConstraint or a predicate
    rs_pc,              \* "idle", "slow_draw", "slow_perturb", "done"
    rs_op,              \* "none", "draw", "perturb": the public method called
    rs_num,             \* the argument num
    rs_ref,             \* the argument ref_sample of perturb
    rs_scale,           \* the argument scale of perturb, in 1/ScaleGrid
    rs_samples,         \* samples / perturbed_samples: collected, then returned
    rs_rejected,        \* some candidate of the rejection loop was infeasible
    \* ---- GradientOptimizer ----
    go_features,        \* self.config: per feature its type, lower, upper, size
    go_pc,              \* "new", "ready", "con", "cat", "dis", "check", "done", "failed"
    pos_continuous,     \* self.pos_continuous
    pos_categories,     \* self.pos_categories
    pos_discrete,       \* self.pos_discrete
    go_bound,           \* set_func has been called
    opt_con_pos,        \* pos given to self.opt_con.set_func
    opt_dis_pos,        \* pos given to self.opt_dis.set_func
    opt_dis_highest,    \* highest given to self.opt_dis.set_func
    opt_cat_pos,        \* pos given to self.opt_cat.set_func
    opt_cat_highest,    \* highest given to self.opt_cat.set_func
    go_sample,          \* the argument sample of optimize
    go_max_iter,        \* the argument max_iter of optimize
    go_fixed_point,     \* every sub-optimizer update returns its input
    sample_copy,        \* sample_copy of optimize
    optimized,          \* optimized of optimize
    num_iter,           \* iterations of the loop of optimize that were begun
    go_steps,           \* the sub-optimizer steps made, in order
    go_outcome,         \* "none", "returned", "AttributeError", "config_error"
    \* ---- SampleSelector._compute_exp_objs ----
    sc_proposals,       \* proposals[strategy][candidate]: a sample
    sc_evaluator,       \* eval_acquisition
    num_cpus,           \* self.num_cpus
    sc_pc,              \* "idle", "fork", "join", "done"
    sampling_param_idx, \* the strategy being scored (from 1)
    processes,          \* per chunk: "started", "exited", "crashed"
    sc_finished,        \* the chunks in the order in which their workers ended
    return_dict,        \* the shared result store: pairs <<return_idx, exp_objs>>
    exp_objs,           \* exp_objs: one reward vector per strategy scored
    sc_outcome,         \* "none", "returned", "KeyError"
    \* ---- SampleSelector.select ----
    ss_categorical,     \* every parameter of the configuration is categorical
    ss_has_options,     \* self.all_options is not None
    all_options,        \* self.all_options: the option pool (when it is not None)
    ss_num_batches,     \* the argument num_batches of the last call of select
    ss_proposals,       \* the argument proposals of the last call
    ss_evaluator,       \* the argument eval_acquisition of the last call
    ss_obs_params,      \* the argument obs_params of the last call
    ss_pool_before,     \* self.all_options when the last call began
    selected_samples,   \* what _select returned in the last call
    ss_picks,           \* the <<strategy, candidate index>> of each greedy pick
    ss_div_crits,       \* div_crits as computed for each greedy pick
    ss_missing,         \* missing_samples: the backfill of the last call
    ss_samples,         \* what the last call returned
    ss_outcome          \* "none", "returned", "TypeError", "ValueError"

varsSampler == <<rs_parameters, known_constraints, rs_pc, rs_op, rs_num, rs_ref,
                 rs_scale, rs_samples, rs_rejected>>

varsOptimizer == <<go_features, go_pc, pos_continuous, pos_categories, pos_discrete,
                   go_bound, opt_con_pos, opt_dis_pos, opt_dis_highest, opt_cat_pos,
                   opt_cat_highest, go_sample, go_max_iter, go_fixed_point,
                   sample_copy, optimized, num_iter, go_steps, go_outcome>>

varsScoring == <<sc_proposals, sc_evaluator, num_cpus, sc_pc, sampling_param_idx,
                 processes, sc_finished, return_dict, exp_objs, sc_outcome>>

varsSelector == <<ss_categorical, ss_has_options, all_options, ss_num_batches,
                  ss_proposals, ss_evaluator, ss_obs_params, ss_pool_before,
                  selected_samples, ss_picks, ss_div_crits, ss_missing, ss_samples,
                  ss_outcome>>

vars == <<varsSampler, varsOptimizer, varsScoring, varsSelector>>

\* what the actions of one component leave alone
notSampler == <<varsOptimizer, varsScoring, varsSelector>>
notOptimizer == <<varsSampler, varsScoring, varsSelector>>
notScoring == <<varsSampler, varsOptimizer, varsSelector>>
notSelector == <<varsSampler, varsOptimizer, varsScoring>>

\* ------------------------------------------------------------------------
\* Helpers
\* ------------------------------------------------------------------------
Range(s) == {s[i] : i \in DOMAIN s}

\* ========================================================================
\* RandomSampler
\* ========================================================================
NoConstraint == "None"

\* parameter settings: param_settings['type'], param_settings['specifics']
ParamContinuous == [type |-> "continuous", low |-> 0, high |-> 2 * ScaleGrid, options |-> 0]
ParamContinuousB == [type |-> "continuous", low |-> ScaleGrid, high |-> 2 * ScaleGrid, options |-> 0]
ParamCategorical == [type |-> "categorical", low |-> 0, high |-> 0, options |-> 3]
ParamDiscrete == [type |-> "discrete", low |-> 1, high |-> 3, options |-> 0]

\* the configurations the sampler is constructed with
SamplerConfigs ==
    { <<ParamContinuous>>,
      <<ParamContinuous, ParamCategorical>>,
      <<ParamCategorical, ParamDiscrete>>,
      <<ParamContinuousB, ParamDiscrete>> }

\* np.random.choice(num_options): an integer of 0 .. num_options-1
DrawCategorical(num_options) == 0 .. (num_options - 1)

\* np.random.uniform(low, high): a grid value of [low, high]
DrawContinuous(low, high) == low .. high

\* a plausible slip: the draw is made over [low, high) of the values
DrawDiscreteValues(low, high) == low .. (high - 1)

\* np.random.randint(low=0, high=high - low): an integer of [0, high-low)
DrawDiscrete(low, high) == 0 .. (high - low - 1)

\* the values one entry of _draw_single_parameter's column can take
DrawSingleParameter(p) ==
    CASE p.type = "continuous" -> DrawContinuous(p.low, p.high)
      [] p.type = "categorical" -> DrawCategorical(p.options)
      [] p.type = "discrete" -> DrawDiscrete(p.low, p.high)

\* one (num, 1) column per parameter, in parameter order
RECURSIVE DrawColumns(_, _)
DrawColumns(params, num) ==
    IF params = <<>> THEN {<<>>}
    ELSE { <<c>> \o rest : c \in [1 .. num -> DrawSingleParameter(Head(params))],
                           rest \in DrawColumns(Tail(params), num) }

\* np.concatenate(columns, axis=1): row j holds entry j of every column
Concatenate(cols, num) == [j \in 1 .. num |-> [i \in 1 .. Len(cols) |-> cols[i][j]]]

\* np.where(x < low, low, x) then np.where(x > high, high, x)
ClampToBounds(x, low, high) ==
    LET a == IF x < low THEN low ELSE x
    IN  IF a > high THEN high ELSE a

\* a plausible slip: the noise is not scaled to the unit interval
NoiseUnscaled(k, p) == k * (p.high - p.low)

\* sampled_values *= high - low, for the draw k/ScaleGrid of [-scale, scale]
Noise(k, p) == (k * (p.high - p.low)) \div ScaleGrid

\* a plausible slip: discrete and categorical entries are perturbed as well
PerturbEveryType(ref_value, p, scale) ==
    IF p.type = "continuous"
    THEN { ClampToBounds(ref_value + ((k * (p.high - p.low)) \div ScaleGrid), p.low, p.high) :
             k \in (0 - scale) .. scale }
    ELSE { ref_value + k : k \in (0 - scale) .. scale }

\* the values one entry of _perturb_single_parameter's column can take
PerturbSingleParameter(ref_value, p, scale) ==
    IF p.type = "continuous"
    THEN { ClampToBounds(ref_value + Noise(k, p), p.low, p.high) : k \in (0 - scale) .. scale }
    ELSE { ref_value * 1 }

RECURSIVE PerturbColumns(_, _, _, _)
PerturbColumns(params, ref, num, scale) ==
    IF params = <<>> THEN {<<>>}
    ELSE { <<c>> \o rest :
             c \in [1 .. num -> PerturbSingleParameter(Head(ref), Head(params), scale)],
             rest \in PerturbColumns(Tail(params), Tail(ref), num, scale) }

\* the option names of a categorical parameter (specs['options'])
OptionNames == <<"A", "B", "C">>

\* sample_arrays_to_dicts: the named-field representation of one sample
SampleArraysToDicts(sample, params) ==
    [i \in 1 .. Len(params) |->
        IF params[i].type = "categorical"
        THEN [option |-> OptionNames[sample[i] + 1]]
        ELSE [number |-> sample[i]]]

\* the feasibility predicates the sampler is constructed with
Predicates == {"accept_all", "reject_all", "first_is_base", "first_not_base"}

IsBase(d) == IF "option" \in DOMAIN d THEN d.option = "A" ELSE d.number = 0

\* self.known_constraints(param)
KnownConstraints(pred, param) ==
    CASE pred = "accept_all" -> TRUE
      [] pred = "reject_all" -> FALSE
      [] pred = "first_is_base" -> IsBase(param[1])
      [] pred = "first_not_base" -> ~IsBase(param[1])

\* the reference samples given to perturb: continuous entries may lie
\* outside the bounds
RefValues(p) ==
    CASE p.type = "continuous" -> (p.low - 1) .. (p.high + 1)
      [] p.type = "categorical" -> 0 .. (p.options - 1)
      [] p.type = "discrete" -> 0 .. (p.high - p.low - 1)

RECURSIVE RefSamples(_)
RefSamples(params) ==
    IF params = <<>> THEN {<<>>}
    ELSE { <<v>> \o rest : v \in RefValues(Head(params)), rest \in RefSamples(Tail(params)) }

\* the sampler while another component is exercised
IdleSampler ==
    /\ rs_parameters = <<>>
    /\ known_constraints = NoConstraint
    /\ rs_pc = "idle"
    /\ rs_op = "none"
    /\ rs_num = 0
    /\ rs_ref = <<>>
    /\ rs_scale = 0
    /\ rs_samples = <<>>
    /\ rs_rejected = FALSE

InitSampler ==
    /\ rs_parameters \in SamplerConfigs
    /\ known_constraints \in {NoConstraint} \cup Predicates
    /\ rs_pc = "idle"
    /\ rs_op = "none"
    /\ rs_num = 0
    /\ rs_ref = <<>>
    /\ rs_scale = 0
    /\ rs_samples = <<>>
    /\ rs_rejected = FALSE

\* a plausible slip: every candidate is kept
AcceptAlways(feasible) == TRUE

\* "if feasible is True"
Accept(feasible) == feasible = TRUE

\* a plausible slip: the loop gives up once a candidate was rejected
KeepTryingUntilRejected(samples, num) == Len(samples) < num /\ ~rs_rejected

\* "while len(samples) < num" of _slow_draw
KeepTrying(samples, num) == Len(samples) < num

\* a plausible slip: the loop gives up once a candidate was rejected
KeepPerturbingUntilRejected(perturbed_samples, num) ==
    Len(perturbed_samples) < num /\ ~rs_rejected

\* "while len(perturbed_samples) < num" of _slow_perturb
KeepPerturbing(perturbed_samples, num) == Len(perturbed_samples) < num

\* draw(num) without constraints: _fast_draw
FastDraw ==
    /\ UNCHANGED notSampler
    /\ rs_pc = "idle"
    /\ known_constraints = NoConstraint
    /\ \E num \in 0 .. MaxNum :
         \E cols \in DrawColumns(rs_parameters, num) :
            /\ rs_num' = num
            /\ rs_samples' = Concatenate(cols, num)
    /\ rs_op' = "draw"
    /\ rs_pc' = "done"
    /\ UNCHANGED <<rs_parameters, known_constraints, rs_ref, rs_scale, rs_rejected>>

\* draw(num) with constraints: _slow_draw is entered, samples = []
SlowDrawStart ==
    /\ UNCHANGED notSampler
    /\ rs_pc = "idle"
    /\ known_constraints # NoConstraint
    /\ \E num \in 0 .. MaxNum : rs_num' = num
    /\ rs_samples' = <<>>
    /\ rs_op' = "draw"
    /\ rs_pc' = "slow_draw"
    /\ UNCHANGED <<rs_parameters, known_constraints, rs_ref, rs_scale, rs_rejected>>

\* the candidates of one pass of _slow_draw: per parameter the first of the
\* num values drawn (lines 66-70), which is any one value of the parameter
FirstRows(params) == { Concatenate(cols, 1)[1] : cols \in DrawColumns(params, 1) }

\* one pass of "while len(samples) < num": a candidate is drawn (the first
\* row of a column of num values per parameter) and kept if feasible is True
SlowDrawIterate ==
    /\ UNCHANGED notSampler
    /\ rs_pc = "slow_draw"
    /\ KeepTrying(rs_samples, rs_num)
    /\ \E sample \in FirstRows(rs_parameters) :
         LET param == SampleArraysToDicts(sample, rs_parameters)
             feasible == KnownConstraints(known_constraints, param)
         IN  IF Accept(feasible)
             THEN /\ rs_samples' = Append(rs_samples, sample)
                  /\ UNCHANGED rs_rejected
             ELSE /\ rs_rejected' = TRUE
                  /\ UNCHANGED rs_samples
    /\ UNCHANGED <<rs_parameters, known_constraints, rs_pc, rs_op, rs_num, rs_ref, rs_scale>>

\* the loop condition fails: _slow_draw returns np.array(samples)
SlowDrawReturn ==
    /\ UNCHANGED notSampler
    /\ rs_pc = "slow_draw"
    /\ ~KeepTrying(rs_samples, rs_num)
    /\ rs_pc' = "done"
    /\ UNCHANGED <<rs_parameters, known_constraints, rs_op, rs_num, rs_ref, rs_scale,
                   rs_samples, rs_rejected>>

\* perturb(ref_sample, num, scale) without constraints: _fast_perturb
FastPerturb ==
    /\ UNCHANGED notSampler
    /\ rs_pc = "idle"
    /\ known_constraints = NoConstraint
    /\ \E num \in 0 .. MaxNum, scale \in 0 .. ScaleGrid, ref \in RefSamples(rs_parameters) :
         \E cols \in PerturbColumns(rs_parameters, ref, num, scale) :
            /\ rs_num' = num
            /\ rs_scale' = scale
            /\ rs_ref' = ref
            /\ rs_samples' = Concatenate(cols, num)
    /\ rs_op' = "perturb"
    /\ rs_pc' = "done"
    /\ UNCHANGED <<rs_parameters, known_constraints, rs_rejected>>

\* perturb(ref_sample, num, scale) with constraints: _slow_perturb is entered
SlowPerturbStart ==
    /\ UNCHANGED notSampler
    /\ rs_pc = "idle"
    /\ known_constraints # NoConstraint
    /\ \E num \in 0 .. MaxNum, scale \in 0 .. ScaleGrid, ref \in RefSamples(rs_parameters) :
            /\ rs_num' = num
            /\ rs_scale' = scale
            /\ rs_ref' = ref
    /\ rs_samples' = <<>>
    /\ rs_op' = "perturb"
    /\ rs_pc' = "slow_perturb"
    /\ UNCHANGED <<rs_parameters, known_constraints, rs_rejected>>

\* one pass of "while len(perturbed_samples) < num"
SlowPerturbIterate ==
    /\ UNCHANGED notSampler
    /\ rs_pc = "slow_perturb"
    /\ KeepPerturbing(rs_samples, rs_num)
    /\ \E cols \in PerturbColumns(rs_parameters, rs_ref, 1, rs_scale) :
         LET perturbed_sample == Concatenate(cols, 1)[1]
             param == SampleArraysToDicts(perturbed_sample, rs_parameters)
             feasible == KnownConstraints(known_constraints, param)
         IN  IF Accept(feasible)
             THEN /\ rs_samples' = Append(rs_samples, perturbed_sample)
                  /\ UNCHANGED rs_rejected
             ELSE /\ rs_rejected' = TRUE
                  /\ UNCHANGED rs_samples
    /\ UNCHANGED <<rs_parameters, known_constraints, rs_pc, rs_op, rs_num, rs_ref, rs_scale>>

\* the loop condition fails: _slow_perturb returns np.array(perturbed_samples)
SlowPerturbReturn ==
    /\ UNCHANGED notSampler
    /\ rs_pc = "slow_perturb"
    /\ ~KeepPerturbing(rs_samples, rs_num)
    /\ rs_pc' = "done"
    /\ UNCHANGED <<rs_parameters, known_constraints, rs_op, rs_num, rs_ref, rs_scale,
                   rs_samples, rs_rejected>>

\* ------------------------------------------------------------------------
\* Properties of RandomSampler
\* ------------------------------------------------------------------------
IsContinuous(i) == rs_parameters[i].type = "continuous"

InBounds(i, v) == rs_parameters[i].low <= v /\ v <= rs_parameters[i].high

Abs(x) == IF x < 0 THEN 0 - x ELSE x

\* C5: with a feasibility predicate, every vector draw has collected satisfies
\* the predicate (no rejected candidate is ever part of the result), and when
\* draw returns it returns exactly num vectors.
ConstrainedDrawFeasible ==
    (rs_op = "draw" /\ known_constraints # NoConstraint) =>
        /\ \A j \in DOMAIN rs_samples :
              KnownConstraints(known_constraints,
                               SampleArraysToDicts(rs_samples[j], rs_parameters)) = TRUE
        /\ rs_pc = "done" => Len(rs_samples) = rs_num

\* a constrained draw of at least two vectors returned after a rejection
ConstrainedDrawWitness ==
    /\ rs_op = "draw"
    /\ rs_pc = "done"
    /\ known_constraints = "first_not_base"
    /\ rs_num >= 2
    /\ Len(rs_samples) = rs_num
    /\ rs_rejected

\* C6: without a predicate, draw(num) returns exactly num vectors of length
\* num-features; a continuous entry lies in [low, high], a categorical entry
\* in 0 .. size-1 and a discrete entry in [0, high-low).
FastDrawWithinBounds ==
    (rs_op = "draw" /\ known_constraints = NoConstraint /\ rs_pc = "done") =>
        /\ Len(rs_samples) = rs_num
        /\ \A j \in DOMAIN rs_samples :
              /\ Len(rs_samples[j]) = Len(rs_parameters)
              /\ \A i \in DOMAIN rs_parameters :
                    LET p == rs_parameters[i]
                        v == rs_samples[j][i]
                    IN  /\ p.type = "continuous" => (p.low <= v /\ v <= p.high)
                        /\ p.type = "categorical" => (0 <= v /\ v <= p.options - 1)
                        /\ p.type = "discrete" => (0 <= v /\ v < p.high - p.low)

\* an unconstrained draw of two vectors or more that holds the largest
\* category and the largest discrete value
FastDrawWitness ==
    /\ rs_op = "draw"
    /\ rs_pc = "done"
    /\ known_constraints = NoConstraint
    /\ rs_num >= 2
    /\ rs_parameters = <<ParamCategorical, ParamDiscrete>>
    /\ Len(rs_samples) = rs_num
    /\ rs_samples[1] = <<ParamCategorical.options - 1, ParamDiscrete.high - ParamDiscrete.low - 1>>

\* C7 as stated: perturb with scale = 0 returns num copies of the reference
\* with every continuous entry unchanged, and for every scale the discrete
\* and categorical entries equal those of the reference.
PerturbScaleZeroUnchanged ==
    (rs_op = "perturb" /\ rs_pc = "done") =>
        /\ Len(rs_samples) = rs_num
        /\ \A j \in DOMAIN rs_samples : \A i \in DOMAIN rs_parameters :
              /\ (IsContinuous(i) /\ rs_scale = 0) => rs_samples[j][i] = rs_ref[i]
              /\ ~IsContinuous(i) => rs_samples[j][i] = rs_ref[i]

\* C7 amended: with scale = 0 a continuous entry equals the reference entry
\* when that lies within [low, high], and the nearest bound otherwise; for
\* every scale the discrete and categorical entries equal the reference.
PerturbScaleZeroClamped ==
    (rs_op = "perturb" /\ rs_pc = "done") =>
        /\ Len(rs_samples) = rs_num
        /\ \A j \in DOMAIN rs_samples : \A i \in DOMAIN rs_parameters :
              LET p == rs_parameters[i]
                  v == rs_samples[j][i]
              IN  /\ (IsContinuous(i) /\ rs_scale = 0) =>
                        /\ InBounds(i, rs_ref[i]) => v = rs_ref[i]
                        /\ rs_ref[i] < p.low => v = p.low
                        /\ rs_ref[i] > p.high => v = p.high
                  /\ ~IsContinuous(i) => v = rs_ref[i]

\* perturb returned two copies or more of a reference with an in-bounds
\* continuous entry and a categorical entry, at a scale above 0 for the
\* latter to matter
PerturbCopiesWitness ==
    /\ rs_op = "perturb"
    /\ rs_pc = "done"
    /\ rs_num >= 2
    /\ Len(rs_samples) = rs_num
    /\ rs_parameters = <<ParamContinuous, ParamCategorical>>
    /\ rs_scale > 0
    /\ rs_ref = <<1, 2>>
    /\ rs_samples[1] # rs_ref
    /\ rs_samples[2][2] = 2

\* C8: a perturbed continuous value never lies outside [low, high], and when
\* the reference is within bounds it lies within scale * (high - low) of it.
PerturbWithinScaledRange ==
    rs_op = "perturb" =>
        \A j \in DOMAIN rs_samples : \A i \in DOMAIN rs_parameters :
            IsContinuous(i) =>
                LET p == rs_parameters[i]
                    v == rs_samples[j][i]
                IN  /\ p.low <= v /\ v <= p.high
                    /\ InBounds(i, rs_ref[i]) =>
                          Abs(v - rs_ref[i]) * ScaleGrid <= rs_scale * (p.high - p.low)

\* the reference in the middle of the range, a scale strictly between 0 and
\* 1, and a returned value at the far end of the scaled interval
PerturbRangeWitness ==
    /\ rs_op = "perturb"
    /\ rs_pc = "done"
    /\ rs_parameters = <<ParamContinuous>>
    /\ rs_scale = 1
    /\ rs_ref = <<ScaleGrid>>
    /\ rs_num >= 1
    /\ Len(rs_samples) = rs_num
    /\ (rs_samples[1][1] - rs_ref[1]) * ScaleGrid = rs_scale * (ParamContinuous.high - ParamContinuous.low)

\* the predicate accepts the candidate
Feasible(sample) ==
    KnownConstraints(known_constraints, SampleArraysToDicts(sample, rs_parameters)) = TRUE

\* some candidate that draw can produce is accepted by the predicate
FeasibleDrawExists == \E sample \in FirstRows(rs_parameters) : Feasible(sample)

ConstrainedDraw == rs_op = "draw" /\ known_constraints # NoConstraint

\* C22: constrained draw returns only with num feasible vectors; when the
\* predicate accepts no candidate and num >= 1 it never returns; and when an
\* accepted candidate is drawn again and again it eventually returns.
ConstrainedDrawReturnsOnlyWhenFull ==
    /\ [](ConstrainedDraw =>
            /\ (rs_pc = "done") =>
                  /\ Len(rs_samples) = rs_num
                  /\ \A j \in DOMAIN rs_samples : Feasible(rs_samples[j])
            /\ (~FeasibleDrawExists /\ rs_num >= 1) => (rs_pc # "done" /\ rs_samples = <<>>))
    /\ (ConstrainedDraw /\ FeasibleDrawExists) ~> (rs_pc = "done")

\* a constrained draw of the largest number of vectors that returned after a
\* candidate was rejected
DrawAfterRejectionWitness ==
    /\ ConstrainedDraw
    /\ rs_pc = "done"
    /\ known_constraints = "first_is_base"
    /\ rs_num >= 2
    /\ Len(rs_samples) = rs_num
    /\ rs_rejected
    /\ rs_samples[1] # rs_samples[2]

NoContinuous == \A i \in DOMAIN rs_parameters : ~IsContinuous(i)

ConstrainedPerturb == rs_op = "perturb" /\ known_constraints # NoConstraint

\* C28: constrained perturb on a space without continuous features only
\* ever produces the reference: it returns num copies of the reference when
\* the predicate accepts the reference and never returns (for num >= 1)
\* when the predicate rejects it.
DiscretePerturbCopiesOrLoops ==
    /\ []((ConstrainedPerturb /\ NoContinuous) =>
            /\ \A j \in DOMAIN rs_samples : rs_samples[j] = rs_ref
            /\ (rs_pc = "done") => Len(rs_samples) = rs_num
            /\ (~Feasible(rs_ref) /\ rs_num >= 1) => (rs_pc # "done" /\ rs_samples = <<>>))
    /\ (ConstrainedPerturb /\ NoContinuous /\ Feasible(rs_ref)) ~> (rs_pc = "done")

\* constrained perturb without continuous features returned two copies or
\* more of an accepted reference
DiscretePerturbWitness ==
    /\ ConstrainedPerturb
    /\ NoContinuous
    /\ rs_pc = "done"
    /\ known_constraints = "first_not_base"
    /\ rs_num >= 2
    /\ Len(rs_samples) = rs_num
    /\ rs_samples[1] = rs_ref
    /\ rs_samples[rs_num] = rs_ref

NextSampler ==
    \/ FastDraw
    \/ SlowDrawStart
    \/ SlowDrawIterate
    \/ SlowDrawReturn
    \/ FastPerturb
    \/ SlowPerturbStart
    \/ SlowPerturbIterate
    \/ SlowPerturbReturn

\* ========================================================================
\* GradientOptimizer
\* ========================================================================
\* the features of a configuration: type, feature_lowers, feature_uppers,
\* feature_sizes.  Bounds are representable in the working precision.
FeatureContinuous == [type |-> "continuous", lower |-> 0, upper |-> 4, size |-> 1]
FeatureCategorical == [type |-> "categorical", lower |-> 0, upper |-> 2, size |-> 3]
FeatureDiscrete == [type |-> "discrete", lower |-> 0, upper |-> 1, size |-> 2]
FeatureUnknown == [type |-> "ordinal", lower |-> 0, upper |-> 1, size |-> 2]

FeatureKinds == {FeatureContinuous, FeatureCategorical, FeatureDiscrete, FeatureUnknown}

\* the configurations the optimizer is constructed with: one or two features
OptimizerConfigs == { <<f>> : f \in FeatureKinds } \cup { <<f, g>> : f \in FeatureKinds, g \in FeatureKinds }

AnyOf(pos) == \E i \in DOMAIN pos : pos[i]

\* GryffinUnknownSettingsError(...): the error object is built, nothing is
\* raised
UnknownSettingsErrorRaises == FALSE

\* the attribute self.within_bounds: the class defines _within_bounds only
HasWithinBounds == FALSE

\* _within_bounds(sample)
WithinBounds(sample) ==
    ~( (\E i \in DOMAIN sample : sample[i] < go_features[i].lower)
       \/ (\E i \in DOMAIN sample : sample[i] > go_features[i].upper) )

\* astype(np.float32): the nearest representable value (the even grid
\* values), ties to the one with an even last digit
Float32(x) ==
    IF x % 2 = 0 THEN x
    ELSE IF (x - 1) % 4 = 0 THEN x - 1 ELSE x + 1

\* lines 73-76 of optimize: clamp into the bounds and cast, if out of bounds
ClampSample(sample) ==
    IF ~WithinBounds(sample)
    THEN [i \in DOMAIN sample |->
            Float32(LET a == IF sample[i] < go_features[i].lower
                             THEN go_features[i].lower ELSE sample[i]
                    IN  IF a > go_features[i].upper THEN go_features[i].upper ELSE a)]
    ELSE sample

\* np.arange(num_features)[pos]: the positions at which pos holds, ascending
RECURSIVE Positions(_, _)
Positions(pos, i) ==
    IF i > Len(pos) THEN <<>>
    ELSE (IF pos[i] THEN <<i>> ELSE <<>>) \o Positions(pos, i + 1)

\* self.config.feature_sizes[pos]
RECURSIVE SizesAt(_, _)
SizesAt(pos, i) ==
    IF i > Len(pos) THEN <<>>
    ELSE (IF pos[i] THEN <<go_features[i].size>> ELSE <<>>) \o SizesAt(pos, i + 1)

\* np.linalg.norm(sample_copy - optimized) ** 2
NormSquared(a, b) ==
    LET RECURSIVE Sum(_)
        Sum(i) == IF i > Len(a) THEN 0 ELSE (a[i] - b[i]) * (a[i] - b[i]) + Sum(i + 1)
    IN  Sum(1)

\* np.linalg.norm(sample_copy - optimized) < 1e-7: one grid step is far
\* above 1e-7, so the norm is below it only if it is 0
Converged(a, b) == NormSquared(a, b) = 0

\* the input samples of optimize: continuous entries may lie out of bounds
InputValues(f) ==
    IF f.type = "continuous" THEN (f.lower - 2) .. (f.upper + 2) ELSE f.lower .. f.upper

RECURSIVE InputSamples(_)
InputSamples(features) ==
    IF features = <<>> THEN {<<>>}
    ELSE { <<v>> \o rest : v \in InputValues(Head(features)),
                           rest \in InputSamples(Tail(features)) }

\* get_update of a sub-optimizer that owns the positions `owned`: the entries
\* at the owned positions may change, within `values`; the others are kept
RECURSIVE Updates(_, _, _, _)
Updates(sample, owned, values, i) ==
    IF i > Len(sample) THEN {<<>>}
    ELSE { <<v>> \o rest :
             v \in (IF i \in Range(owned) THEN values[go_features[i]] ELSE {sample[i]}),
             rest \in Updates(sample, owned, values, i + 1) }

ContinuousValues == [f \in FeatureKinds |-> (f.lower - 1) .. (f.upper + 1)]
IndexValues == [f \in FeatureKinds |-> 0 .. (f.size - 1)]

\* self.opt_con.get_update(sample)
ContinuousUpdates(sample) ==
    IF go_fixed_point THEN {sample} ELSE Updates(sample, opt_con_pos, ContinuousValues, 1)
\* self.opt_cat.get_update(sample)
CategoricalUpdates(sample) ==
    IF go_fixed_point THEN {sample} ELSE Updates(sample, opt_cat_pos, IndexValues, 1)
\* self.opt_dis.get_update(sample)
DiscreteUpdates(sample) ==
    IF go_fixed_point THEN {sample} ELSE Updates(sample, opt_dis_pos, IndexValues, 1)

\* the optimizer while another component is exercised
IdleOptimizer ==
    /\ go_features = <<>>
    /\ go_pc = "new"
    /\ pos_continuous = <<>>
    /\ pos_categories = <<>>
    /\ pos_discrete = <<>>
    /\ go_bound = FALSE
    /\ opt_con_pos = <<>>
    /\ opt_dis_pos = <<>>
    /\ opt_dis_highest = <<>>
    /\ opt_cat_pos = <<>>
    /\ opt_cat_highest = <<>>
    /\ go_sample = <<>>
    /\ go_max_iter = 0
    /\ go_fixed_point = FALSE
    /\ sample_copy = <<>>
    /\ optimized = <<>>
    /\ num_iter = 0
    /\ go_steps = <<>>
    /\ go_outcome = "none"

\* before __init__: the configuration is chosen
InitOptimizer ==
    /\ go_features \in OptimizerConfigs
    /\ go_pc = "new"
    /\ pos_continuous = <<>>
    /\ pos_categories = <<>>
    /\ pos_discrete = <<>>
    /\ go_bound = FALSE
    /\ opt_con_pos = <<>>
    /\ opt_dis_pos = <<>>
    /\ opt_dis_highest = <<>>
    /\ opt_cat_pos = <<>>
    /\ opt_cat_highest = <<>>
    /\ go_sample = <<>>
    /\ go_max_iter = 0
    /\ go_fixed_point = FALSE
    /\ sample_copy = <<>>
    /\ optimized = <<>>
    /\ num_iter = 0
    /\ go_steps = <<>>
    /\ go_outcome = "none"

KnownTypes == {"continuous", "categorical", "discrete"}

\* __init__: the positions are parsed by feature type
Construct ==
    /\ UNCHANGED notOptimizer
    /\ go_pc = "new"
    /\ IF (\E i \in DOMAIN go_features : go_features[i].type \notin KnownTypes)
          /\ UnknownSettingsErrorRaises
       THEN /\ go_pc' = "failed"
            /\ go_outcome' = "config_error"
            /\ UNCHANGED <<pos_continuous, pos_categories, pos_discrete>>
       ELSE /\ go_pc' = "ready"
            /\ pos_continuous' = [i \in DOMAIN go_features |-> go_features[i].type = "continuous"]
            /\ pos_categories' = [i \in DOMAIN go_features |-> go_features[i].type = "categorical"]
            /\ pos_discrete' = [i \in DOMAIN go_features |-> go_features[i].type = "discrete"]
            /\ UNCHANGED go_outcome
    /\ UNCHANGED <<go_features, go_bound, opt_con_pos, opt_dis_pos, opt_dis_highest,
                   opt_cat_pos, opt_cat_highest, go_sample, go_max_iter, go_fixed_point,
                   sample_copy, optimized, num_iter, go_steps>>

\* set_func(kernel, ignores); ignores=None masks nothing, like a mask that
\* is False everywhere
SetFunc ==
    /\ UNCHANGED notOptimizer
    /\ go_pc = "ready"
    /\ \E ignores \in [DOMAIN go_features -> BOOLEAN] :
         LET Masked(pos) == [i \in DOMAIN pos |->
                                IF ignores[i] THEN FALSE ELSE pos[i]]
             con == Masked(pos_continuous)
             dis == Masked(pos_discrete)
             cat == Masked(pos_categories)
         IN  /\ opt_con_pos' = Positions(con, 1)
             /\ opt_dis_pos' = Positions(dis, 1)
             /\ opt_dis_highest' = SizesAt(pos_discrete, 1)
             /\ opt_cat_pos' = Positions(cat, 1)
             /\ opt_cat_highest' = SizesAt(pos_categories, 1)
    /\ go_bound' = TRUE
    /\ UNCHANGED <<go_features, go_pc, pos_continuous, pos_categories, pos_discrete,
                   go_sample, go_max_iter, go_fixed_point, sample_copy, optimized,
                   num_iter, go_steps, go_outcome>>

\* optimize(sample, max_iter) up to the head of the loop
OptimizeStart ==
    /\ UNCHANGED notOptimizer
    /\ go_pc = "ready"
    /\ go_bound
    /\ \E sample \in InputSamples(go_features), max_iter \in 0 .. MaxIter, fixed \in BOOLEAN :
         /\ go_sample' = sample
         /\ go_max_iter' = max_iter
         /\ go_fixed_point' = fixed
         /\ sample_copy' = ClampSample(sample)
         /\ optimized' = ClampSample(sample)
         /\ IF max_iter > 0
            THEN /\ go_pc' = "con"
                 /\ num_iter' = 1
                 /\ UNCHANGED go_outcome
            ELSE /\ go_pc' = "done"
                 /\ num_iter' = 0
                 /\ go_outcome' = "returned"
    /\ go_steps' = <<>>
    /\ UNCHANGED <<go_features, pos_continuous, pos_categories, pos_discrete, go_bound,
                   opt_con_pos, opt_dis_pos, opt_dis_highest, opt_cat_pos, opt_cat_highest>>

\* "if np.any(self.pos_continuous): optimized = self._optimize_continuous(optimized)"
ContinuousStep ==
    /\ UNCHANGED notOptimizer
    /\ go_pc = "con"
    /\ IF AnyOf(pos_continuous)
       THEN \E proposal \in ContinuousUpdates(optimized) :
              IF HasWithinBounds
              THEN /\ optimized' = IF WithinBounds(proposal) THEN proposal ELSE optimized
                   /\ go_pc' = "cat"
                   /\ go_steps' = Append(go_steps, "continuous")
                   /\ UNCHANGED go_outcome
              ELSE /\ go_pc' = "done"
                   /\ go_outcome' = "AttributeError"
                   /\ UNCHANGED <<optimized, go_steps>>
       ELSE /\ go_pc' = "cat"
            /\ UNCHANGED <<optimized, go_steps, go_outcome>>
    /\ UNCHANGED <<go_features, pos_continuous, pos_categories, pos_discrete, go_bound,
                   opt_con_pos, opt_dis_pos, opt_dis_highest, opt_cat_pos, opt_cat_highest,
                   go_sample, go_max_iter, go_fixed_point, sample_copy, num_iter>>

\* "if np.any(self.pos_categories): optimized = self._optimize_categorical(optimized)"
CategoricalStep ==
    /\ UNCHANGED notOptimizer
    /\ go_pc = "cat"
    /\ IF AnyOf(pos_categories)
       THEN /\ \E proposal \in CategoricalUpdates(optimized) : optimized' = proposal
            /\ go_steps' = Append(go_steps, "categorical")
       ELSE UNCHANGED <<optimized, go_steps>>
    /\ go_pc' = "dis"
    /\ UNCHANGED <<go_features, pos_continuous, pos_categories, pos_discrete, go_bound,
                   opt_con_pos, opt_dis_pos, opt_dis_highest, opt_cat_pos, opt_cat_highest,
                   go_sample, go_max_iter, go_fixed_point, sample_copy, num_iter, go_outcome>>

\* "if np.any(self.pos_discrete): optimized = self._optimize_discrete(optimized)"
DiscreteStep ==
    /\ UNCHANGED notOptimizer
    /\ go_pc = "dis"
    /\ IF AnyOf(pos_discrete)
       THEN /\ \E proposal \in DiscreteUpdates(optimized) : optimized' = proposal
            /\ go_steps' = Append(go_steps, "discrete")
       ELSE UNCHANGED <<optimized, go_steps>>
    /\ go_pc' = "check"
    /\ UNCHANGED <<go_features, pos_continuous, pos_categories, pos_discrete, go_bound,
                   opt_con_pos, opt_dis_pos, opt_dis_highest, opt_cat_pos, opt_cat_highest,
                   go_sample, go_max_iter, go_fixed_point, sample_copy, num_iter, go_outcome>>

\* the convergence check, then the next pass of the loop or the return
ConvergenceCheck ==
    /\ UNCHANGED notOptimizer
    /\ go_pc = "check"
    /\ IF AnyOf(pos_continuous) /\ Converged(sample_copy, optimized)
       THEN /\ go_pc' = "done"
            /\ go_outcome' = "returned"
            /\ UNCHANGED <<sample_copy, num_iter>>
       ELSE /\ sample_copy' = optimized
            /\ IF num_iter < go_max_iter
               THEN /\ go_pc' = "con"
                    /\ num_iter' = num_iter + 1
                    /\ UNCHANGED go_outcome
               ELSE /\ go_pc' = "done"
                    /\ go_outcome' = "returned"
                    /\ UNCHANGED num_iter
    /\ UNCHANGED <<go_features, pos_continuous, pos_categories, pos_discrete, go_bound,
                   opt_con_pos, opt_dis_pos, opt_dis_highest, opt_cat_pos, opt_cat_highest,
                   go_sample, go_max_iter, go_fixed_point, optimized, go_steps>>

\* ------------------------------------------------------------------------
\* Properties of GradientOptimizer
\* ------------------------------------------------------------------------
\* C4 as stated: for every input sample and every max_iter, optimize returns
\* a vector whose continuous features all lie within [lower, upper].
OptimizeReturnsWithinBounds ==
    go_pc = "done" =>
        /\ go_outcome = "returned"
        /\ \A i \in DOMAIN optimized :
              pos_continuous[i] =>
                 (go_features[i].lower <= optimized[i] /\ optimized[i] <= go_features[i].upper)

\* C9 as stated: from an in-bounds input that is a fixed point of every
\* update, with a continuous feature and max_iter >= 1, optimize stops after
\* exactly one iteration and returns the input.
FixedPointConvergesAtOnce ==
    ( /\ go_pc = "done"
      /\ go_fixed_point
      /\ AnyOf(pos_continuous)
      /\ go_max_iter >= 1
      /\ WithinBounds(go_sample) ) =>
        /\ go_outcome = "returned"
        /\ num_iter = 1
        /\ Converged(go_sample, optimized)

\* C10 as stated: a configuration with a feature of an unknown type ends
\* construction in a configuration error.
UnknownTypeIsConfigurationError ==
    ( /\ go_pc # "new"
      /\ \E i \in DOMAIN go_features : go_features[i].type \notin KnownTypes ) =>
        go_outcome = "config_error"

\* the steps of one iteration as the masks given to set_func allow them:
\* continuous, categorical, discrete, each only with an active feature
ActivePattern ==
    (IF opt_con_pos # <<>> THEN <<"continuous">> ELSE <<>>)
    \o (IF opt_cat_pos # <<>> THEN <<"categorical">> ELSE <<>>)
    \o (IF opt_dis_pos # <<>> THEN <<"discrete">> ELSE <<>>)

RECURSIVE Repeat(_, _)
Repeat(pattern, n) == IF n <= 0 THEN <<>> ELSE pattern \o Repeat(pattern, n - 1)

IsPrefix(xs, ys) == Len(xs) <= Len(ys) /\ xs = SubSeq(ys, 1, Len(xs))

\* C19 as stated: in every iteration the steps run in the order continuous,
\* categorical, discrete, and only the sub-optimizers that own an active
\* feature are stepped: the steps made so far are the first steps of
\* num_iter rounds of the active pattern.
StepsFollowActivePattern ==
    IsPrefix(go_steps, Repeat(ActivePattern, num_iter))

\* C20 as stated: optimize ends by returning after at most max_iter
\* iterations; without an active continuous feature it runs exactly max_iter
\* iterations, and with one it stops before max_iter only at an iteration
\* that left the vector unchanged.
OptimizeRunsBudget ==
    go_pc = "done" =>
        /\ go_outcome = "returned"
        /\ num_iter <= go_max_iter
        /\ (opt_con_pos = <<>>) => (num_iter = go_max_iter)
        /\ (opt_con_pos # <<>> /\ num_iter < go_max_iter) => Converged(sample_copy, optimized)

\* the continuous step of an iteration is about to run
AtContinuousStep == go_pc = "con" /\ AnyOf(pos_continuous)

\* C21 as stated: the continuous step hands on either the proposal of the
\* continuous sub-optimizer, when that is within bounds, or the previous
\* vector unchanged, and optimize goes on with the categorical step.
ContinuousStepAcceptsOrReverts ==
    [][AtContinuousStep =>
         /\ go_pc' = "cat"
         /\ go_outcome' = go_outcome
         /\ \/ optimized' \in ContinuousUpdates(optimized) /\ WithinBounds(optimized')
            \/ optimized' = optimized]_vars

\* the list of cardinalities has one entry per owned position, entry k being
\* the size of the feature at position k
OneSizePerPosition(positions, highest) ==
    /\ Len(highest) = Len(positions)
    /\ \A k \in DOMAIN positions : highest[k] = go_features[positions[k]].size

\* C23 as stated (its part on cardinalities): after set_func with any mask
\* the discrete and the categorical sub-optimizer hold one cardinality per
\* position they own, in the same order.
CardinalitiesMatchPositions ==
    go_bound =>
        /\ OneSizePerPosition(opt_dis_pos, opt_dis_highest)
        /\ OneSizePerPosition(opt_cat_pos, opt_cat_highest)

NextOptimizer ==
    \/ Construct
    \/ SetFunc
    \/ OptimizeStart
    \/ ContinuousStep
    \/ CategoricalStep
    \/ DiscreteStep
    \/ ConvergenceCheck

\* ========================================================================
\* SampleSelector: scoring (compute_exp_objs, _compute_exp_objs)
\* ========================================================================
\* the samples: two features with the values 0 and 1
Vectors == { <<a, b>> : a \in 0 .. 1, b \in 0 .. 1 }

\* the acquisition evaluators: pure functions of the sample and the strategy
Evaluators == {"ev_sum", "ev_split"}

\* eval_acquisition(sample, sampling_param_idx)
EvalAcquisition(ev, sample, idx) ==
    CASE ev = "ev_sum" -> sample[1] + sample[2]
      [] ev = "ev_split" -> IF idx = 1 THEN sample[1] - sample[2] ELSE sample[2] - sample[1]

\* np.exp(x), argument and value in thousandths
Exp(x) ==
    CASE x = -2000 -> 135
      [] x = -1414 -> 243
      [] x = -1000 -> 368
      [] x = 0 -> 1000
      [] x = 586 -> 1797
      [] x = 1000 -> 2718

\* np.exp(-acq), in thousandths
ExpNeg(acq) == Exp((0 - acq) * 1000)

\* compute_exp_objs: exp_objs[sample_index] = np.exp(-acq), sample by sample
ComputeExpObjs(samples, ev, idx) ==
    [i \in 1 .. Len(samples) |-> ExpNeg(EvalAcquisition(ev, samples[i], idx))]

\* a plausible slip: every chunk gets n // k candidates, the rest is dropped
ChunkSizeTruncated(n, k, c) == n \div k

\* np.array_split: the first n % k chunks hold n // k + 1 candidates, the
\* others n // k
ChunkSize(n, k, c) == (n \div k) + (IF c <= n % k THEN 1 ELSE 0)

\* the candidates before chunk c
RECURSIVE ChunkStart(_, _, _)
ChunkStart(n, k, c) == IF c <= 1 THEN 0 ELSE ChunkStart(n, k, c - 1) + ChunkSize(n, k, c - 1)

\* np.array_split(proposals, num_cpus, axis=1)[c][sampling_param_idx]
ProposalsSplit(samples, k, c) ==
    SubSeq(samples, ChunkStart(Len(samples), k, c) + 1,
                    ChunkStart(Len(samples), k, c) + ChunkSize(Len(samples), k, c))

\* return_dict has the key c
HasKey(dict, c) == \E p \in dict : p[1] = c

\* return_dict[c]
Lookup(dict, c) == (CHOOSE p \in dict : p[1] = c)[2]

\* a plausible slip: the chunks are put together in the order in which the
\* workers ended
ExtendInFinishOrder(dict, k) ==
    LET RECURSIVE Cat(_)
        Cat(order) == IF order = <<>> THEN <<>>
                      ELSE Lookup(dict, Head(order)) \o Cat(Tail(order))
    IN  Cat(sc_finished)

\* "for idx in range(len(proposals_splits)): batch_exp_objs.extend(return_dict[idx])"
ExtendInOrder(dict, k) ==
    LET RECURSIVE Cat(_)
        Cat(c) == IF c > k THEN <<>> ELSE Lookup(dict, c) \o Cat(c + 1)
    IN  Cat(1)

\* the proposal ensembles that are scored: one or two strategies with the
\* same number of candidates each
ScoringSamples == { <<0, 0>>, <<1, 0>> }

ScoringEnsembles ==
    UNION { [1 .. s -> [1 .. k -> ScoringSamples]] : s \in 1 .. 2, k \in 1 .. MaxCandidates }

\* scoring while another component is exercised
IdleScoring ==
    /\ sc_proposals = <<>>
    /\ sc_evaluator = "ev_sum"
    /\ num_cpus = 1
    /\ sc_pc = "idle"
    /\ sampling_param_idx = 1
    /\ processes = <<>>
    /\ sc_finished = <<>>
    /\ return_dict = {}
    /\ exp_objs = <<>>
    /\ sc_outcome = "none"

\* _compute_exp_objs is entered: exp_objs = []
InitScoring ==
    /\ sc_proposals \in ScoringEnsembles
    /\ sc_evaluator \in Evaluators
    /\ num_cpus \in 1 .. MaxCpus
    /\ sc_pc = "fork"
    /\ sampling_param_idx = 1
    /\ processes = <<>>
    /\ sc_finished = <<>>
    /\ return_dict = {}
    /\ exp_objs = <<>>
    /\ sc_outcome = "none"

\* exp_objs.append(batch_exp_objs), then the next strategy or the return
AppendAndAdvance(batch_exp_objs) ==
    /\ exp_objs' = Append(exp_objs, batch_exp_objs)
    /\ IF sampling_param_idx < Len(sc_proposals)
       THEN /\ sampling_param_idx' = sampling_param_idx + 1
            /\ sc_pc' = "fork"
            /\ UNCHANGED sc_outcome
       ELSE /\ sc_pc' = "done"
            /\ sc_outcome' = "returned"
            /\ UNCHANGED sampling_param_idx

\* the sequential path: one call of compute_exp_objs on all candidates
ScoreSequential ==
    /\ UNCHANGED notScoring
    /\ sc_pc = "fork"
    /\ ~(num_cpus > 1)
    /\ AppendAndAdvance(ComputeExpObjs(sc_proposals[sampling_param_idx], sc_evaluator,
                                       sampling_param_idx))
    /\ UNCHANGED <<sc_proposals, sc_evaluator, num_cpus, processes, sc_finished, return_dict>>

\* the parallel path: a fresh return_dict, one process started per chunk
StartWorkers ==
    /\ UNCHANGED notScoring
    /\ sc_pc = "fork"
    /\ num_cpus > 1
    /\ return_dict' = {}
    /\ processes' = [c \in 1 .. num_cpus |-> "started"]
    /\ sc_finished' = <<>>
    /\ sc_pc' = "join"
    /\ UNCHANGED <<sc_proposals, sc_evaluator, num_cpus, sampling_param_idx, exp_objs, sc_outcome>>

\* a worker runs compute_exp_objs on its chunk, stores the result under its
\* return_idx and exits
WorkerStore ==
    /\ UNCHANGED notScoring
    /\ sc_pc = "join"
    /\ \E c \in DOMAIN processes :
         /\ processes[c] = "started"
         /\ return_dict' = return_dict \cup
               { <<c, ComputeExpObjs(ProposalsSplit(sc_proposals[sampling_param_idx], num_cpus, c),
                                     sc_evaluator, sampling_param_idx)>> }
         /\ processes' = [processes EXCEPT ![c] = "exited"]
         /\ sc_finished' = Append(sc_finished, c)
    /\ UNCHANGED <<sc_proposals, sc_evaluator, num_cpus, sc_pc, sampling_param_idx, exp_objs,
                   sc_outcome>>

\* a plausible slip: a worker that fails leaves an empty result under its key
StoredOnCrashEmpty(c) == { <<c, <<>>>> }

\* what a worker that ends before line 37 adds to return_dict: nothing
StoredOnCrash(c) == {}

\* a worker ends without storing its chunk result
WorkerCrash ==
    /\ UNCHANGED notScoring
    /\ sc_pc = "join"
    /\ \E c \in DOMAIN processes :
         /\ processes[c] = "started"
         /\ processes' = [processes EXCEPT ![c] = "crashed"]
         /\ sc_finished' = Append(sc_finished, c)
         /\ return_dict' = return_dict \cup StoredOnCrash(c)
    /\ UNCHANGED <<sc_proposals, sc_evaluator, num_cpus, sc_pc, sampling_param_idx, exp_objs,
                   sc_outcome>>

\* a plausible slip: the results are read without waiting for the workers
JoinedNone == TRUE

\* every process has been joined
AllJoined == \A c \in DOMAIN processes : processes[c] # "started"

\* after the joins the chunk results are read in increasing index; a
\* missing key raises KeyError
JoinAndCollect ==
    /\ UNCHANGED notScoring
    /\ sc_pc = "join"
    /\ AllJoined
    /\ IF \A c \in 1 .. num_cpus : HasKey(return_dict, c)
       THEN AppendAndAdvance(ExtendInOrder(return_dict, num_cpus))
       ELSE /\ sc_pc' = "done"
            /\ sc_outcome' = "KeyError"
            /\ UNCHANGED <<exp_objs, sampling_param_idx>>
    /\ UNCHANGED <<sc_proposals, sc_evaluator, num_cpus, processes, sc_finished, return_dict>>

\* ------------------------------------------------------------------------
\* Properties of the scoring paths
\* ------------------------------------------------------------------------
\* C3: whatever the number of workers and the order in which they end, the
\* reward vectors returned are those of the sequential path: entry i of
\* strategy s is exp(-acq) of candidate i of strategy s.
ParallelEqualsSequential ==
    (sc_pc = "done" /\ sc_outcome = "returned") =>
        /\ Len(exp_objs) = Len(sc_proposals)
        /\ \A s \in DOMAIN sc_proposals :
              /\ Len(exp_objs[s]) = Len(sc_proposals[s])
              /\ \A i \in DOMAIN sc_proposals[s] :
                    exp_objs[s][i] = ExpNeg(EvalAcquisition(sc_evaluator, sc_proposals[s][i], s))

\* a parallel run with more workers than candidates, uneven rewards, and the
\* worker of a later chunk ending before the worker of chunk 1
ParallelScoringWitness ==
    /\ sc_pc = "done"
    /\ sc_outcome = "returned"
    /\ num_cpus = 3
    /\ Len(sc_proposals) = 2
    /\ Len(sc_proposals[1]) = 2
    /\ exp_objs[2][1] # exp_objs[2][2]
    /\ sc_finished[1] # 1

\* a worker of the strategy being scored ended without storing its result
SomeWorkerCrashed == \E c \in DOMAIN processes : processes[c] = "crashed"

\* C13: once a worker has ended without storing its chunk result, the
\* scoring (and with it the select call around it) never returns: no reward
\* vector is appended for that strategy and the call ends with the KeyError.
WorkerCrashIsFatal ==
    SomeWorkerCrashed =>
        /\ sc_outcome # "returned"
        /\ Len(exp_objs) < sampling_param_idx
        /\ (sc_pc = "done") => (sc_outcome = "KeyError")

\* the second strategy's scoring ended with the error although the other
\* workers stored their chunks
WorkerCrashWitness ==
    /\ sc_pc = "done"
    /\ sc_outcome = "KeyError"
    /\ sampling_param_idx = 2
    /\ Len(exp_objs) = 1
    /\ num_cpus = 3
    /\ processes[2] = "crashed"
    /\ processes[1] = "exited"
    /\ processes[3] = "exited"

\* the number of rewards stored under the chunk indices below c
RECURSIVE StoredBefore(_, _)
StoredBefore(dict, c) ==
    IF c <= 1 THEN 0 ELSE StoredBefore(dict, c - 1) + Len(Lookup(dict, c - 1))

\* the step in which the coordinator reads return_dict
ReadsResults == sc_pc = "join" /\ sc_pc' # "join"

\* C14: the coordinator reads return_dict for a strategy only when every
\* worker started for that strategy has ended, and the vector it appends
\* holds the chunk results in increasing chunk index.
ReadAfterJoinInChunkOrder ==
    [][ReadsResults =>
         /\ \A c \in DOMAIN processes : processes[c] \in {"exited", "crashed"}
         /\ (sc_outcome' # "KeyError") =>
               /\ Len(exp_objs') = sampling_param_idx
               /\ \A c \in 1 .. num_cpus :
                     \A i \in DOMAIN Lookup(return_dict, c) :
                        exp_objs'[sampling_param_idx][StoredBefore(return_dict, c) + i]
                           = Lookup(return_dict, c)[i]]_vars

\* two workers ended in decreasing chunk index and the three rewards were
\* put together
JoinedOutOfOrderWitness ==
    /\ sc_pc = "done"
    /\ sc_outcome = "returned"
    /\ num_cpus = 2
    /\ sc_finished = <<2, 1>>
    /\ Len(sc_proposals[Len(sc_proposals)]) = 3
    /\ Len(exp_objs[Len(sc_proposals)]) = 3
    /\ exp_objs[Len(sc_proposals)][1] # exp_objs[Len(sc_proposals)][3]

NextScoring ==
    \/ ScoreSequential
    \/ StartWorkers
    \/ WorkerStore
    \/ WorkerCrash
    \/ JoinAndCollect

\* ========================================================================
\* SampleSelector: _select and select
\* ========================================================================
\* self.config.feature_ranges, param_lowers, param_uppers of the two features
feature_ranges == <<1, 1>>
param_lowers == <<0, 0>>
param_uppers == <<1, 1>>

Min(a, b) == IF a < b THEN a ELSE b

\* float(num_obs) ** 0.5, in thousandths
Sqrt(num_obs) ==
    CASE num_obs = 1 -> 1000
      [] num_obs = 2 -> 1414

\* char_dists = feature_ranges / float(num_obs) ** 0.5, in thousandths
CharDists(num_obs) ==
    [f \in DOMAIN feature_ranges |-> (feature_ranges[f] * 1000 * 1000) \div Sqrt(num_obs)]

\* the observation histories: none, one or two observed samples
ObservationHistories ==
    { <<>>, <<<<0, 0>>>>, <<<<1, 1>>>>, <<<<0, 0>>, <<1, 1>>>>, <<<<0, 1>>, <<0, 1>>>> }

\* the shapes <<number of strategies, candidates per strategy>> of the
\* proposal ensembles given to select
EnsembleShapes == { <<1, 1>>, <<1, 2>>, <<2, 1>>, <<2, 2>>, <<3, 1>> }

\* the proposal ensembles given to select
SelectEnsembles == UNION { [1 .. sh[1] -> [1 .. sh[2] -> Vectors]] : sh \in EnsembleShapes }

\* sum((obs_norm - proposal_norm) ** 2) < 1e-8 for the normalised vectors,
\* both sides multiplied by the squared ranges
TooClose(obs, proposal) ==
    LET R(f) == param_uppers[f] - param_lowers[f]
        d1 == (obs[1] - proposal[1]) * (obs[1] - proposal[1]) * R(2) * R(2)
        d2 == (obs[2] - proposal[2]) * (obs[2] - proposal[2]) * R(1) * R(1)
    IN  (d1 + d2) * 100000000 < R(1) * R(1) * R(2) * R(2)

\* lines 170-182: the reward of a proposal that repeats an observation is
\* set to zero
SuppressObserved(rewards, proposals, obs_params) ==
    [s \in DOMAIN rewards |->
        [i \in DOMAIN rewards[s] |->
            IF \E o \in DOMAIN obs_params : TooClose(obs_params[o], proposals[s][i])
            THEN 0 ELSE rewards[s][i]]]

AbsDiff(a, b) == IF a < b THEN b - a ELSE a - b

\* np.amin([np.abs(proposal - x) for x in xs], axis=0)[f]
MinDistance(proposal, xs, f) ==
    CHOOSE d \in { AbsDiff(proposal[f], xs[j][f]) : j \in DOMAIN xs } :
        \A j \in DOMAIN xs : d <= AbsDiff(proposal[f], xs[j][f])

\* line 212: np.exp(2. * (min_distance - char_dists) / feature_ranges)[f],
\* in thousandths
ExpTerm(proposal, obs_params, selected, f) ==
    LET char_dists == CharDists(Len(obs_params))
        min_distance ==
            IF Len(selected) > 0
            THEN Min(MinDistance(proposal, selected, f), MinDistance(proposal, obs_params, f))
            ELSE MinDistance(proposal, obs_params, f)
    IN  Exp((2 * (min_distance * 1000 - char_dists[f])) \div feature_ranges[f])

\* the other reading: each term is capped at 1 and the capped terms are
\* averaged
DivCritCappedPerFeature(proposal, obs_params, selected) ==
    (Min(1000, ExpTerm(proposal, obs_params, selected, 1))
     + Min(1000, ExpTerm(proposal, obs_params, selected, 2))) \div Len(feature_ranges)

\* line 212: np.minimum(1., np.mean(np.exp(2. * (min_distance - char_dists)
\* / feature_ranges))), in thousandths
DivCrit(proposal, obs_params, selected) ==
    Min(1000, (ExpTerm(proposal, obs_params, selected, 1)
               + ExpTerm(proposal, obs_params, selected, 2)) \div Len(feature_ranges))

\* np.argmax: the first index of the largest value
ArgMax(xs) ==
    CHOOSE i \in DOMAIN xs :
        /\ \A j \in DOMAIN xs : xs[j] <= xs[i]
        /\ \A j \in DOMAIN xs : (j < i) => xs[j] < xs[i]

\* lines 189-225: the greedy pass, pick t of num_batches * (number of
\* strategies); st holds exp_objs, selected_samples and the picks so far
RECURSIVE Greedy(_, _, _, _, _)
Greedy(t, total, proposals, obs_params, st) ==
    IF t > total THEN st
    ELSE LET S == Len(proposals)
             s == ((t - 1) % S) + 1
             batch_proposals == proposals[s]
             div_crits == [i \in DOMAIN batch_proposals |->
                              DivCrit(batch_proposals[i], obs_params, st.selected)]
             reweighted_rewards == [i \in DOMAIN batch_proposals |->
                                       st.exp_objs[s][i] * div_crits[i]]
             largest_reward_index == ArgMax(reweighted_rewards)
         IN  Greedy(t + 1, total, proposals, obs_params,
                    [exp_objs |-> [st.exp_objs EXCEPT ![s][largest_reward_index] = 0],
                     selected |-> Append(st.selected, batch_proposals[largest_reward_index]),
                     picks |-> Append(st.picks, <<s, largest_reward_index>>),
                     div_crits |-> Append(st.div_crits, div_crits)])

\* _select(num_batches, proposals, eval_acquisition, sampling_param_values,
\* obs_params), for a non-empty observation history
SelectGreedy(num_batches, proposals, ev, obs_params) ==
    LET scored == [s \in DOMAIN proposals |-> ComputeExpObjs(proposals[s], ev, s)]
    IN  Greedy(1, num_batches * Len(proposals), proposals, obs_params,
               [exp_objs |-> SuppressObserved(scored, proposals, obs_params),
                selected |-> <<>>,
                picks |-> <<>>,
                div_crits |-> <<>>])

\* the order of np.unique(axis=0): rows compared entry by entry
LexLess(a, b) == a[1] < b[1] \/ (a[1] = b[1] /\ a[2] < b[2])

\* the rows of a set in ascending order
RECURSIVE Sorted(_)
Sorted(rows) ==
    IF rows = {} THEN <<>>
    ELSE LET least == CHOOSE r \in rows : \A q \in rows \ {r} : LexLess(r, q)
         IN  <<least>> \o Sorted(rows \ {least})

\* a plausible slip: the distinct rows are kept in the order of the picks
RECURSIVE UniqueInPickOrder(_)
UniqueInPickOrder(samples) ==
    IF samples = <<>> THEN <<>>
    ELSE LET front == UniqueInPickOrder(SubSeq(samples, 1, Len(samples) - 1))
             last == samples[Len(samples)]
         IN  IF last \in Range(front) THEN front ELSE Append(front, last)

\* np.unique(samples, axis=0)
Unique(samples) == Sorted(Range(samples))

\* a plausible slip: the picks are left in the pool
RemoveNothing(pool, unique_samples) == pool

\* lines 77-79: every row equal to a selected sample is deleted from the pool
RemoveSelected(pool, unique_samples) == pool \ Range(unique_samples)

\* a plausible slip: the backfill is drawn from the full enumeration
RECURSIVE ChoicesFromEnumeration(_, _)
ChoicesFromEnumeration(pool, m) ==
    IF m = 0 THEN {<<>>}
    ELSE UNION { { <<x>> \o rest : rest \in ChoicesFromEnumeration(pool, m - 1) } : x \in Vectors }

\* np.random.choice(n, size=m, replace=False): m different rows of the pool,
\* in any order
RECURSIVE Choices(_, _)
Choices(pool, m) ==
    IF m = 0 THEN {<<>>}
    ELSE UNION { { <<x>> \o rest : rest \in Choices(pool \ {x}, m - 1) } : x \in pool }

\* a plausible slip: the drawn rows stay in the pool
KeepMissing(pool, missing_samples) == pool

\* lines 88-90: every row equal to a backfilled sample is deleted from the pool
RemoveMissing(pool, missing_samples) == pool \ Range(missing_samples)

\* a plausible slip: the pool size is not looked at
DegradedNever(pool, S) == FALSE

\* line 61: len(self.all_options) < len(sampling_param_values)
Degraded(pool, S) == Cardinality(pool) < S

\* a selector while another component is exercised
IdleSelector ==
    /\ ss_categorical = TRUE
    /\ ss_has_options = FALSE
    /\ all_options = {}
    /\ ss_num_batches = 0
    /\ ss_proposals = <<>>
    /\ ss_evaluator = "ev_sum"
    /\ ss_obs_params = <<>>
    /\ ss_pool_before = {}
    /\ selected_samples = <<>>
    /\ ss_picks = <<>>
    /\ ss_div_crits = <<>>
    /\ ss_missing = <<>>
    /\ ss_samples = <<>>
    /\ ss_outcome = "none"

\* __init__(config, all_options): an option pool is given for a fully
\* categorical space only; all_options defaults to None
InitSelector ==
    /\ ss_categorical \in BOOLEAN
    /\ ss_has_options \in BOOLEAN
    /\ ss_has_options => ss_categorical
    /\ all_options \in SUBSET Vectors
    /\ ~ss_has_options => all_options = {}
    /\ ss_num_batches = 0
    /\ ss_proposals = <<>>
    /\ ss_evaluator = "ev_sum"
    /\ ss_obs_params = <<>>
    /\ ss_pool_before = {}
    /\ selected_samples = <<>>
    /\ ss_picks = <<>>
    /\ ss_div_crits = <<>>
    /\ ss_missing = <<>>
    /\ ss_samples = <<>>
    /\ ss_outcome = "none"

\* select(num_batches, proposals, eval_acquisition, sampling_param_values,
\* obs_params), from _select to the return or the exception. A behaviour
\* holds one call: the initial states hold every pool a selector can be left
\* with, so a later call is the first call of another behaviour.
Select ==
    /\ UNCHANGED notSelector
    /\ ss_outcome = "none"
    /\ \E num_batches \in 1 .. MaxBatches, proposals \in SelectEnsembles,
          ev \in Evaluators, obs_params \in ObservationHistories :
         /\ ss_num_batches' = num_batches
         /\ ss_proposals' = proposals
         /\ ss_evaluator' = ev
         /\ ss_obs_params' = obs_params
         /\ ss_pool_before' = all_options
         /\ IF obs_params = <<>>
            THEN \* np.amin over no observation (line 178) raises
                 /\ ss_outcome' = "ValueError"
                 /\ selected_samples' = <<>>
                 /\ ss_picks' = <<>>
                 /\ ss_div_crits' = <<>>
                 /\ ss_missing' = <<>>
                 /\ ss_samples' = <<>>
                 /\ UNCHANGED all_options
            ELSE \E g \in { SelectGreedy(num_batches, proposals, ev, obs_params) } :
                 LET samples == g.selected
                     S == Len(proposals)
                     degraded == Degraded(all_options, S)
                     unique_samples == IF degraded THEN samples ELSE Unique(samples)
                     is_batch_duplicate == ~degraded /\ Len(unique_samples) # S
                     remaining == IF ss_categorical
                                  THEN RemoveSelected(all_options, unique_samples)
                                  ELSE all_options
                     missing_size == S - Len(unique_samples)
                 IN  /\ selected_samples' = samples
                     /\ ss_picks' = g.picks
                     /\ ss_div_crits' = g.div_crits
                     /\ IF ~ss_has_options
                        THEN \* len(None) (line 61) raises
                             /\ ss_outcome' = "TypeError"
                             /\ ss_missing' = <<>>
                             /\ ss_samples' = <<>>
                             /\ UNCHANGED all_options
                        ELSE IF is_batch_duplicate
                        THEN IF missing_size < 0 \/ missing_size > Cardinality(remaining)
                             THEN \* np.random.choice (line 84) raises
                                  /\ ss_outcome' = "ValueError"
                                  /\ ss_missing' = <<>>
                                  /\ ss_samples' = <<>>
                                  /\ all_options' = remaining
                             ELSE \E missing_samples \in Choices(remaining, missing_size) :
                                  /\ ss_outcome' = "returned"
                                  /\ ss_missing' = missing_samples
                                  /\ ss_samples' = unique_samples \o missing_samples
                                  /\ all_options' = RemoveMissing(remaining, missing_samples)
                        ELSE /\ ss_outcome' = "returned"
                             /\ ss_missing' = <<>>
                             /\ ss_samples' = unique_samples
                             /\ all_options' = remaining
    /\ UNCHANGED <<ss_categorical, ss_has_options>>

\* ------------------------------------------------------------------------
\* Properties of select
\* ------------------------------------------------------------------------
NumStrategies == Len(ss_proposals)

NoDuplicates(xs) == \A i \in DOMAIN xs : \A j \in DOMAIN xs : (i # j) => xs[i] # xs[j]

ReturnedBatchDistinct ==
    ( /\ ss_outcome = "returned"
      /\ Cardinality(ss_pool_before) >= NumStrategies ) =>
        NoDuplicates(ss_samples)

\* both strategies made the same greedy pick and one vector was backfilled
BackfilledBatchWitness ==
    /\ ss_outcome = "returned"
    /\ ss_num_batches = 1
    /\ NumStrategies = 2
    /\ Cardinality(ss_pool_before) >= NumStrategies
    /\ selected_samples[1] = selected_samples[2]
    /\ selected_samples[1] \in ss_pool_before
    /\ Len(ss_missing) = 1
    /\ Len(ss_samples) = 2

\* the largest reward of each strategy as scored, before any suppression
MaxRewardPicks ==
    [s \in DOMAIN ss_proposals |->
        <<s, ArgMax(ComputeExpObjs(ss_proposals[s], ss_evaluator, s))>>]

\* C11 as stated: with an empty observation history and num_batches = 1,
\* select (of a selector with an option pool) completes and picks for every
\* strategy the candidate with the largest reward of that strategy.
EmptyHistoryPicksMaxReward ==
    ( /\ ss_outcome # "none"
      /\ ss_has_options
      /\ ss_obs_params = <<>>
      /\ ss_num_batches = 1 ) =>
        /\ ss_outcome = "returned"
        /\ ss_picks = MaxRewardPicks

\* the greedy picks of the last call repeat a vector
GreedyPicksRepeat == ~NoDuplicates(selected_samples)

\* C12: in a fully categorical space with num_batches = 1 and a pool of at
\* least as many entries as strategies, a batch whose greedy picks repeat is
\* returned as the distinct picks followed by (strategies - distinct picks)
\* backfilled vectors; every backfilled vector comes from the pool without
\* the distinct picks, so it differs from every distinct pick and from every
\* other backfilled vector.
DuplicatesBackfilledFromPool ==
    ( /\ ss_outcome = "returned"
      /\ ss_categorical
      /\ ss_num_batches = 1
      /\ Cardinality(ss_pool_before) >= NumStrategies
      /\ GreedyPicksRepeat ) =>
        /\ ss_samples = Unique(selected_samples) \o ss_missing
        /\ Len(ss_missing) = NumStrategies - Cardinality(Range(selected_samples))
        /\ \A i \in DOMAIN ss_missing :
               ss_missing[i] \in ss_pool_before \ Range(selected_samples)
        /\ NoDuplicates(ss_missing)
        /\ NoDuplicates(ss_samples)

\* three strategies made the same greedy pick and two different vectors of
\* the pruned pool were backfilled
TwoBackfilledWitness ==
    /\ ss_outcome = "returned"
    /\ ss_categorical
    /\ ss_num_batches = 1
    /\ NumStrategies = 3
    /\ Cardinality(ss_pool_before) >= NumStrategies
    /\ Cardinality(Range(selected_samples)) = 1
    /\ Len(ss_missing) = 2
    /\ ss_missing[1] # ss_missing[2]
    /\ Len(ss_samples) = 3

\* the candidate a pick names
Picked(pick) == ss_proposals[pick[1]][pick[2]]

\* the candidate repeats an observation of the last call
RepeatsObservation(candidate) ==
    \E o \in DOMAIN ss_obs_params : TooClose(ss_obs_params[o], candidate)

\* C15 as stated: the greedy pass never picks a candidate whose normalised
\* squared distance to an observed sample is below 1e-8.
RepeatsNeverPicked ==
    \A t \in DOMAIN ss_picks : ~RepeatsObservation(Picked(ss_picks[t]))

\* C16 as stated: within one greedy pass no candidate index is picked twice
\* for the same strategy.
NoIndexPickedTwice == NoDuplicates(ss_picks)

\* C17: when the pool holds fewer entries than there are strategies as
\* select begins, select returns the greedy batch as assembled (same
\* vectors, same order, duplicates kept), draws no backfill and takes
\* nothing but the picks out of the pool.
DegradedReturnsGreedyBatch ==
    ( /\ ss_outcome # "none"
      /\ ss_has_options
      /\ ss_obs_params # <<>>
      /\ Cardinality(ss_pool_before) < NumStrategies ) =>
        /\ ss_outcome = "returned"
        /\ ss_samples = selected_samples
        /\ ss_missing = <<>>
        /\ all_options = ss_pool_before \ Range(selected_samples)

\* two strategies, a pool of one entry, and the same vector picked twice
DegradedDuplicatesWitness ==
    /\ ss_outcome = "returned"
    /\ NumStrategies = 2
    /\ ss_num_batches = 1
    /\ Cardinality(ss_pool_before) = 1
    /\ Len(selected_samples) = 2
    /\ selected_samples[1] = selected_samples[2]
    /\ ss_samples = selected_samples

\* C18: in a fully categorical space a call of select only takes entries
\* out of the pool, whatever pool it starts from and however it ends, and
\* no vector it returns (greedy pick or backfill) is left in the pool.
PoolOnlyShrinks ==
    (ss_categorical /\ ss_has_options /\ ss_outcome # "none") =>
        /\ all_options \subseteq ss_pool_before
        /\ (ss_outcome = "returned") => (Range(ss_samples) \cap all_options = {})

\* a call on the full pool that returned a greedy pick and a backfilled
\* vector, both of which left the pool
PoolShrunkWitness ==
    /\ ss_outcome = "returned"
    /\ ss_categorical
    /\ ss_pool_before = Vectors
    /\ Len(ss_missing) = 1
    /\ ss_missing[1] \in ss_pool_before
    /\ ss_samples[1] \in ss_pool_before
    /\ Cardinality(all_options) = Cardinality(ss_pool_before) - 2

\* the samples selected before greedy pick t
SelectedBefore(t) == SubSeq(selected_samples, 1, t - 1)

\* the candidates among which greedy pick t was made
CandidatesAt(t) == ss_proposals[ss_picks[t][1]]

\* C24 as stated: the diversity factor of every candidate at every greedy
\* pick is the mean over the features of min(1, e_f), the exponential term
\* of each feature being capped at 1 before the mean is taken.
DiversityCappedPerFeature ==
    \A t \in DOMAIN ss_div_crits : \A i \in DOMAIN ss_div_crits[t] :
        ss_div_crits[t][i] =
            DivCritCappedPerFeature(CandidatesAt(t)[i], ss_obs_params, SelectedBefore(t))

\* C24 amended: the diversity factor of every candidate at every greedy pick
\* is min(1, mean over the features of e_f), the cap at 1 being applied once
\* to the mean, and it lies in [0, 1].
DiversityCappedAfterMean ==
    \A t \in DOMAIN ss_div_crits : \A i \in DOMAIN ss_div_crits[t] :
        LET e(f) == ExpTerm(CandidatesAt(t)[i], ss_obs_params, SelectedBefore(t), f)
            mean == (e(1) + e(2)) \div 2
        IN  /\ ss_div_crits[t][i] = (IF mean > 1000 THEN 1000 ELSE mean)
            /\ 0 <= ss_div_crits[t][i] /\ ss_div_crits[t][i] <= 1000

\* a candidate far from every observation in one feature and on an
\* observation in the other: one term above 1, one below, the mean above 1
DiversityCapWitness ==
    \E t \in DOMAIN ss_div_crits : \E i \in DOMAIN ss_div_crits[t] :
        /\ ExpTerm(CandidatesAt(t)[i], ss_obs_params, SelectedBefore(t), 1) > 1000
        /\ ExpTerm(CandidatesAt(t)[i], ss_obs_params, SelectedBefore(t), 2) < 1000
        /\ ss_div_crits[t][i] = 1000

\* C25 as stated: in a space that is not fully categorical, a selector
\* without option pool whose greedy picks are pairwise distinct completes
\* select without error, draws no backfill and returns the picks.
SelectWithoutPoolReturnsPicks ==
    ( /\ ss_outcome # "none"
      /\ ~ss_categorical
      /\ ~ss_has_options
      /\ ss_obs_params # <<>>
      /\ NoDuplicates(selected_samples) ) =>
        /\ ss_outcome = "returned"
        /\ ss_missing = <<>>
        /\ Range(ss_samples) = Range(selected_samples)
        /\ Len(ss_samples) = Len(selected_samples)

\* C26: when the pool is not smaller than the number of strategies and the
\* greedy picks are distinct, the batch select returns holds exactly the
\* picks, in ascending lexicographic order of the vectors and not in the
\* order in which they were picked.
DistinctPicksReturnedSorted ==
    ( /\ ss_outcome = "returned"
      /\ Cardinality(ss_pool_before) >= NumStrategies
      /\ NoDuplicates(selected_samples) ) =>
        /\ Range(ss_samples) = Range(selected_samples)
        /\ Len(ss_samples) = Len(selected_samples)
        /\ \A k \in 1 .. (Len(ss_samples) - 1) : LexLess(ss_samples[k], ss_samples[k + 1])

\* two distinct picks, the first strategy's pick the larger vector: the
\* returned batch holds the second strategy's pick first
ReorderedBatchWitness ==
    /\ ss_outcome = "returned"
    /\ Cardinality(ss_pool_before) >= NumStrategies
    /\ NumStrategies = 2
    /\ Len(selected_samples) = 2
    /\ LexLess(selected_samples[2], selected_samples[1])
    /\ ss_samples = <<selected_samples[2], selected_samples[1]>>

\* the last call reached the backfill draw of line 84
ReachedBackfillDraw ==
    /\ ss_outcome \in {"returned", "ValueError"}
    /\ ss_has_options
    /\ ss_obs_params # <<>>
    /\ Cardinality(ss_pool_before) >= NumStrategies
    /\ Cardinality(Range(selected_samples)) # NumStrategies

\* C27 as stated: whenever select reaches the backfill draw, the shortfall
\* (strategies minus distinct picks) is not negative and not larger than
\* the number of entries left in the pool.
ShortfallCanBeDrawn ==
    ReachedBackfillDraw =>
        LET shortfall == NumStrategies - Cardinality(Range(selected_samples))
            left == ss_pool_before \ Range(selected_samples)
        IN  /\ 0 <= shortfall
            /\ shortfall <= Cardinality(left)

NextSelector ==
    \/ Select

\* an optimizer before its first step, the other components at rest
StartOptimizer == InitOptimizer /\ IdleSampler /\ IdleScoring /\ IdleSelector

SpecOptimizer == StartOptimizer /\ [][NextOptimizer]_vars

\* a sampler before its first step, the other components at rest
StartSampler == InitSampler /\ IdleOptimizer /\ IdleScoring /\ IdleSelector

SpecSampler == StartSampler /\ [][NextSampler]_vars

\* the loops of the sampler keep running, and in constrained draw a
\* candidate the predicate accepts is drawn again and again
SpecSamplerFair ==
    /\ StartSampler
    /\ [][NextSampler]_vars
    /\ WF_vars(SlowDrawIterate /\ rs_samples' # rs_samples)
    /\ WF_vars(SlowDrawReturn)
    /\ WF_vars(SlowPerturbIterate)
    /\ WF_vars(SlowPerturbReturn)

\* a scoring pass before its first step, the other components at rest
StartScoring == InitScoring /\ IdleSampler /\ IdleOptimizer /\ IdleSelector

SpecScoring == StartScoring /\ [][NextScoring]_vars

\* a selector before its first step, the other components at rest
StartSelect == InitSelector /\ IdleSampler /\ IdleOptimizer /\ IdleScoring

SpecSelect == StartSelect /\ [][NextSelector]_vars

====
